---- MODULE Spec2Model ----
(***************************************************************************)
(* Model of sheetpr.go: the page-margin and sheet-property accessors of a  *)
(* worksheet (SetPageMargins, GetPageMargins, SetSheetProps,               *)
(* GetSheetProps).                                                         *)
(*                                                                         *)
(* Conventions.  A Go pointer is a sequence of length at most one: Nil is  *)
(* the nil pointer, Ptr(v) a pointer to v.  None of the four functions     *)
(* writes through a pointer it copied (pointer fields are only replaced),  *)
(* so a pointer is modelled by the value it points to.  A float64 is an    *)
(* integer number of hundredths (0.7 is 70, 0.75 is 75, 1.0 is 100).  A    *)
(* struct is a record, so reflect's FieldByName(name) is node[name].       *)
(***************************************************************************)
EXTENDS Integers, Sequences, FiniteSets, TLC

VARIABLES sheets, call, ret, ncalls

vars == <<sheets, call, ret, ncalls>>

Nil == <<>>

Ptr(v) == <<v>>

Deref(p) == p[1]

\* Number of calls made in one behaviour.
MaxCalls == 2

\* The worksheets of the workbook, and the names a caller may pass.
Sheets == {"Sheet1", "Sheet2"}

SheetNames == Sheets \cup {"NoSuchSheet"}

ErrSheetNotExist == "SheetNotFound"

NoErr == "nil"

\* Row height a new sheetFormatPr node starts with, in hundredths.
defaultRowHeight == 1500

(***************************************************************************)
(* Types: the option structs in declaration order (reflect's Field(i) is   *)
(* element i+1) and the zero values of the worksheet nodes.                *)
(***************************************************************************)
PageLayoutMarginsOptionsFields ==
    <<"Bottom", "Footer", "Header", "Left", "Right", "Top",
      "Horizontally", "Vertically">>

SheetPropsOptionsFields ==
    <<"CodeName", "EnableFormatConditionsCalculation", "Published",
      "AutoPageBreaks", "FitToPage",
      "TabColorIndexed", "TabColorRGB", "TabColorTheme", "TabColorTint",
      "OutlineSummaryBelow", "OutlineSummaryRight",
      "BaseColWidth", "DefaultColWidth", "DefaultRowHeight", "CustomHeight",
      "ZeroHeight", "ThickTop", "ThickBottom">>

Range(seq) == {seq[i] : i \in 1..Len(seq)}

\* new(xlsxPageMargins)
NewPageMargins ==
    [Bottom |-> 0, Footer |-> 0, Header |-> 0, Left |-> 0, Right |-> 0, Top |-> 0]

\* new(xlsxPrintOptions)
NewPrintOptions == [HorizontalCentered |-> FALSE, VerticalCentered |-> FALSE]

\* new(xlsxSheetPr)
NewSheetPr ==
    [CodeName |-> "", EnableFormatConditionsCalculation |-> Nil, Published |-> Nil,
     PageSetUpPr |-> Nil, OutlinePr |-> Nil, TabColor |-> Nil]

\* new(xlsxPageSetUpPr)
NewPageSetUpPr == [AutoPageBreaks |-> FALSE, FitToPage |-> FALSE]

\* new(xlsxOutlinePr)
NewOutlinePr == [SummaryBelow |-> Nil, SummaryRight |-> Nil]

\* new(xlsxColor); Theme is the one pointer field
NewTabColor == [Indexed |-> 0, RGB |-> "", Theme |-> Nil, Tint |-> 0]

\* &xlsxSheetFormatPr{DefaultRowHeight: defaultRowHeight}
NewSheetFormatPr ==
    [BaseColWidth |-> 0, DefaultColWidth |-> 0, DefaultRowHeight |-> defaultRowHeight,
     CustomHeight |-> FALSE, ZeroHeight |-> FALSE, ThickTop |-> FALSE,
     ThickBottom |-> FALSE]

\* A worksheet none of whose four nodes exists.
NewWorksheet ==
    [PageMargins |-> Nil, PrintOptions |-> Nil, SheetPr |-> Nil, SheetFormatPr |-> Nil]

\* name[8:] of a TabColor* option field: the xlsxColor field it is written to.
TabColorFieldName ==
    [TabColorIndexed |-> "Indexed", TabColorRGB |-> "RGB",
     TabColorTheme |-> "Theme", TabColorTint |-> "Tint"]

\* fld.Kind() == reflect.Ptr for the fields of xlsxColor.
TabColorFieldIsPtr ==
    [Indexed |-> FALSE, RGB |-> FALSE, Theme |-> TRUE, Tint |-> FALSE]

(***************************************************************************)
(* f.workSheetReader(sheet): the worksheet, or an error for a name that    *)
(* does not resolve.                                                       *)
(***************************************************************************)
workSheetReader(sh, sheet) ==
    IF sheet \in DOMAIN sh
    THEN [ws |-> Ptr(sh[sheet]), err |-> NoErr]
    ELSE [ws |-> Nil, err |-> ErrSheetNotExist]

(***************************************************************************)
(* SetPageMargins                                                          *)
(***************************************************************************)
preparePageMargins(ws) ==
    IF ws.PageMargins = Nil
    THEN [ws EXCEPT !.PageMargins = Ptr(NewPageMargins)]
    ELSE ws

preparePrintOptions(ws) ==
    IF ws.PrintOptions = Nil
    THEN [ws EXCEPT !.PrintOptions = Ptr(NewPrintOptions)]
    ELSE ws

\* One iteration of the loop `for i := 0; i < 6; i++` (i counted from 1).
setPageMarginsField(ws, opts, i) ==
    LET name == PageLayoutMarginsOptionsFields[i]
    IN  IF opts[name] # Nil
        THEN [preparePageMargins(ws) EXCEPT
                 !.PageMargins = Ptr([Deref(preparePageMargins(ws).PageMargins)
                                         EXCEPT ![name] = Deref(opts[name])])]
        ELSE ws

RECURSIVE setPageMarginsLoop(_, _, _)
setPageMarginsLoop(ws, opts, i) ==
    IF i > 6 THEN ws
    ELSE setPageMarginsLoop(setPageMarginsField(ws, opts, i), opts, i + 1)

\* The Horizontally branch with preparePrintOptions hoisted out of the nil check.
setHorizontally_eager(ws, opts) ==
    IF opts.Horizontally # Nil
    THEN [preparePrintOptions(ws) EXCEPT
             !.PrintOptions = Ptr([Deref(preparePrintOptions(ws).PrintOptions)
                                     EXCEPT !.HorizontalCentered = Deref(opts.Horizontally)])]
    ELSE preparePrintOptions(ws)

setHorizontally(ws, opts) ==
    IF opts.Horizontally # Nil
    THEN [preparePrintOptions(ws) EXCEPT
             !.PrintOptions = Ptr([Deref(preparePrintOptions(ws).PrintOptions)
                                     EXCEPT !.HorizontalCentered = Deref(opts.Horizontally)])]
    ELSE ws

setVertically(ws, opts) ==
    IF opts.Vertically # Nil
    THEN [preparePrintOptions(ws) EXCEPT
             !.PrintOptions = Ptr([Deref(preparePrintOptions(ws).PrintOptions)
                                     EXCEPT !.VerticalCentered = Deref(opts.Vertically)])]
    ELSE ws

\* The body of SetPageMargins after the sheet is resolved and opts is not nil.
setPageMargins(ws, opts) ==
    setVertically(setHorizontally(setPageMarginsLoop(ws, opts, 1), opts), opts)

(***************************************************************************)
(* GetPageMargins                                                          *)
(***************************************************************************)
DefaultPageMargins ==
    [Bottom |-> Ptr(75), Footer |-> Ptr(30), Header |-> Ptr(30),
     Left |-> Ptr(70), Right |-> Ptr(70), Top |-> Ptr(75),
     Horizontally |-> Nil, Vertically |-> Nil]

getPageMarginsDistances(opts, ws) ==
    IF ws.PageMargins # Nil
    THEN LET pm == Deref(ws.PageMargins)
         IN  [opts EXCEPT !.Bottom = Ptr(pm.Bottom), !.Footer = Ptr(pm.Footer),
                          !.Header = Ptr(pm.Header), !.Left = Ptr(pm.Left),
                          !.Right = Ptr(pm.Right), !.Top = Ptr(pm.Top)]
    ELSE opts

getPageMarginsCentering(opts, ws) ==
    IF ws.PrintOptions # Nil
    THEN LET po == Deref(ws.PrintOptions)
         IN  [opts EXCEPT !.Horizontally = Ptr(po.HorizontalCentered),
                          !.Vertically = Ptr(po.VerticalCentered)]
    ELSE opts

\* The descriptor GetPageMargins returns for a resolved worksheet.
getPageMargins(ws) ==
    getPageMarginsCentering(getPageMarginsDistances(DefaultPageMargins, ws), ws)

(***************************************************************************)
(* setSheetProps and setSheetOutlineProps                                  *)
(***************************************************************************)
\* prepareSheetPr without its nil check.
prepareSheetPr_always(ws) == [ws EXCEPT !.SheetPr = Ptr(NewSheetPr)]

prepareSheetPr(ws) ==
    IF ws.SheetPr = Nil THEN [ws EXCEPT !.SheetPr = Ptr(NewSheetPr)] ELSE ws

\* ws.SheetPr.<name> = v
setSheetPrField(ws, name, v) ==
    [ws EXCEPT !.SheetPr = Ptr([Deref(ws.SheetPr) EXCEPT ![name] = v])]

\* ws.SheetPr.<child>.<name> = v
setSheetPrChildField(ws, child, name, v) ==
    setSheetPrField(ws, child, Ptr([Deref(Deref(ws.SheetPr)[child]) EXCEPT ![name] = v]))

prepareOutlinePr(ws) ==
    LET w == prepareSheetPr(ws)
    IN  IF Deref(w.SheetPr).OutlinePr = Nil
        THEN setSheetPrField(w, "OutlinePr", Ptr(NewOutlinePr))
        ELSE w

preparePageSetUpPr(ws) ==
    LET w == prepareSheetPr(ws)
    IN  IF Deref(w.SheetPr).PageSetUpPr = Nil
        THEN setSheetPrField(w, "PageSetUpPr", Ptr(NewPageSetUpPr))
        ELSE w

prepareTabColor(ws) ==
    LET w == prepareSheetPr(ws)
    IN  IF Deref(w.SheetPr).TabColor = Nil
        THEN setSheetPrField(w, "TabColor", Ptr(NewTabColor))
        ELSE w

setOutlineSummaryBelow(ws, opts) ==
    IF opts.OutlineSummaryBelow # Nil
    THEN setSheetPrChildField(prepareOutlinePr(ws), "OutlinePr", "SummaryBelow",
                              opts.OutlineSummaryBelow)
    ELSE ws

setOutlineSummaryRight(ws, opts) ==
    IF opts.OutlineSummaryRight # Nil
    THEN setSheetPrChildField(prepareOutlinePr(ws), "OutlinePr", "SummaryRight",
                              opts.OutlineSummaryRight)
    ELSE ws

\* setSheetOutlineProps with prepareOutlinePr hoisted out of the nil checks.
setSheetOutlineProps_eager(ws, opts) ==
    setOutlineSummaryRight(setOutlineSummaryBelow(prepareOutlinePr(ws), opts), opts)

setSheetOutlineProps(ws, opts) ==
    setOutlineSummaryRight(setOutlineSummaryBelow(ws, opts), opts)

setCodeName(ws, opts) ==
    IF opts.CodeName # Nil
    THEN setSheetPrField(prepareSheetPr(ws), "CodeName", Deref(opts.CodeName))
    ELSE ws

setEnableFormatConditionsCalculation(ws, opts) ==
    IF opts.EnableFormatConditionsCalculation # Nil
    THEN setSheetPrField(prepareSheetPr(ws), "EnableFormatConditionsCalculation",
                         opts.EnableFormatConditionsCalculation)
    ELSE ws

setPublished(ws, opts) ==
    IF opts.Published # Nil
    THEN setSheetPrField(prepareSheetPr(ws), "Published", opts.Published)
    ELSE ws

setAutoPageBreaks(ws, opts) ==
    IF opts.AutoPageBreaks # Nil
    THEN setSheetPrChildField(preparePageSetUpPr(ws), "PageSetUpPr", "AutoPageBreaks",
                              Deref(opts.AutoPageBreaks))
    ELSE ws

setFitToPage(ws, opts) ==
    IF opts.FitToPage # Nil
    THEN setSheetPrChildField(preparePageSetUpPr(ws), "PageSetUpPr", "FitToPage",
                              Deref(opts.FitToPage))
    ELSE ws

\* One iteration of the loop `for i := 5; i < 9; i++` (i counted from 1): a
\* pointer-typed model field takes the option's pointer, a plain one its value.
setTabColorField(ws, opts, i) ==
    LET name == SheetPropsOptionsFields[i]
        fld  == TabColorFieldName[name]
    IN  IF opts[name] # Nil
        THEN setSheetPrChildField(prepareTabColor(ws), "TabColor", fld,
                                  IF TabColorFieldIsPtr[fld] THEN opts[name]
                                                             ELSE Deref(opts[name]))
        ELSE ws

RECURSIVE setTabColorLoop(_, _, _)
setTabColorLoop(ws, opts, i) ==
    IF i > 9 THEN ws
    ELSE setTabColorLoop(setTabColorField(ws, opts, i), opts, i + 1)

setSheetProps(ws, opts) ==
    setTabColorLoop(
        setSheetOutlineProps(
            setFitToPage(
                setAutoPageBreaks(
                    setPublished(
                        setEnableFormatConditionsCalculation(
                            setCodeName(ws, opts), opts), opts), opts), opts), opts),
        opts, 6)

(***************************************************************************)
(* SetSheetProps, after the sheet is resolved and opts is not nil          *)
(***************************************************************************)
prepareSheetFormatPr(ws) ==
    IF ws.SheetFormatPr = Nil
    THEN [ws EXCEPT !.SheetFormatPr = Ptr(NewSheetFormatPr)]
    ELSE ws

\* One iteration of the loop `for i := 11; i < 18; i++` (i counted from 1).
setSheetFormatPrField(ws, opts, i) ==
    LET name == SheetPropsOptionsFields[i]
    IN  IF opts[name] # Nil
        THEN [ws EXCEPT !.SheetFormatPr =
                 Ptr([Deref(ws.SheetFormatPr) EXCEPT ![name] = Deref(opts[name])])]
        ELSE ws

RECURSIVE setSheetFormatPrLoop(_, _, _)
setSheetFormatPrLoop(ws, opts, i) ==
    IF i > 18 THEN ws
    ELSE setSheetFormatPrLoop(setSheetFormatPrField(ws, opts, i), opts, i + 1)

\* The format loop started one field late (i := 12).
setSheetPropsAndFormat_skipFirst(ws, opts) ==
    setSheetFormatPrLoop(prepareSheetFormatPr(setSheetProps(ws, opts)), opts, 13)

\* The format node allocated only when the patch has a format field.
setSheetPropsAndFormat_lazy(ws, opts) ==
    IF \E i \in 12..18 : opts[SheetPropsOptionsFields[i]] # Nil
    THEN setSheetFormatPrLoop(prepareSheetFormatPr(setSheetProps(ws, opts)), opts, 12)
    ELSE setSheetProps(ws, opts)

setSheetPropsAndFormat(ws, opts) ==
    setSheetFormatPrLoop(prepareSheetFormatPr(setSheetProps(ws, opts)), opts, 12)

(***************************************************************************)
(* GetSheetProps                                                           *)
(***************************************************************************)
\* The default table without its Published entry.
DefaultSheetProps_noPublished ==
    [n \in Range(SheetPropsOptionsFields) |->
        CASE n \in {"EnableFormatConditionsCalculation",
                    "AutoPageBreaks", "OutlineSummaryBelow"} -> Ptr(TRUE)
          [] n = "BaseColWidth" -> Ptr(8)
          [] OTHER -> Nil]

DefaultSheetProps ==
    [n \in Range(SheetPropsOptionsFields) |->
        CASE n \in {"EnableFormatConditionsCalculation", "Published",
                    "AutoPageBreaks", "OutlineSummaryBelow"} -> Ptr(TRUE)
          [] n = "BaseColWidth" -> Ptr(8)
          [] OTHER -> Nil]

getSheetPrProps(opts, pr) ==
    LET o1 == [opts EXCEPT !.CodeName = Ptr(pr.CodeName)]
        o2 == IF pr.EnableFormatConditionsCalculation # Nil
              THEN [o1 EXCEPT !.EnableFormatConditionsCalculation =
                                  pr.EnableFormatConditionsCalculation]
              ELSE o1
    IN  IF pr.Published # Nil THEN [o2 EXCEPT !.Published = pr.Published] ELSE o2

getPageSetUpPrProps(opts, pr) ==
    IF pr.PageSetUpPr # Nil
    THEN [opts EXCEPT !.AutoPageBreaks = Ptr(Deref(pr.PageSetUpPr).AutoPageBreaks),
                      !.FitToPage = Ptr(Deref(pr.PageSetUpPr).FitToPage)]
    ELSE opts

\* The outline flags read like Published: a nil flag keeps the default.
getOutlinePrProps_keepDefault(opts, pr) ==
    IF pr.OutlinePr # Nil
    THEN LET o == IF Deref(pr.OutlinePr).SummaryBelow # Nil
                  THEN [opts EXCEPT !.OutlineSummaryBelow = Deref(pr.OutlinePr).SummaryBelow]
                  ELSE opts
         IN  IF Deref(pr.OutlinePr).SummaryRight # Nil
             THEN [o EXCEPT !.OutlineSummaryRight = Deref(pr.OutlinePr).SummaryRight]
             ELSE o
    ELSE opts

getOutlinePrProps(opts, pr) ==
    IF pr.OutlinePr # Nil
    THEN [opts EXCEPT !.OutlineSummaryBelow = Deref(pr.OutlinePr).SummaryBelow,
                      !.OutlineSummaryRight = Deref(pr.OutlinePr).SummaryRight]
    ELSE opts

getTabColorProps(opts, pr) ==
    IF pr.TabColor # Nil
    THEN [opts EXCEPT !.TabColorIndexed = Ptr(Deref(pr.TabColor).Indexed),
                      !.TabColorRGB = Ptr(Deref(pr.TabColor).RGB),
                      !.TabColorTheme = Deref(pr.TabColor).Theme,
                      !.TabColorTint = Ptr(Deref(pr.TabColor).Tint)]
    ELSE opts

getSheetFormatPrProps(opts, ws) ==
    IF ws.SheetFormatPr # Nil
    THEN LET fp == Deref(ws.SheetFormatPr)
         IN  [opts EXCEPT !.BaseColWidth = Ptr(fp.BaseColWidth),
                          !.DefaultColWidth = Ptr(fp.DefaultColWidth),
                          !.DefaultRowHeight = Ptr(fp.DefaultRowHeight),
                          !.CustomHeight = Ptr(fp.CustomHeight),
                          !.ZeroHeight = Ptr(fp.ZeroHeight),
                          !.ThickTop = Ptr(fp.ThickTop),
                          !.ThickBottom = Ptr(fp.ThickBottom)]
    ELSE opts

\* The descriptor GetSheetProps returns for a resolved worksheet.
getSheetProps(ws) ==
    LET o == IF ws.SheetPr # Nil
             THEN LET pr == Deref(ws.SheetPr)
                  IN  getTabColorProps(
                          getOutlinePrProps(
                              getPageSetUpPrProps(
                                  getSheetPrProps(DefaultSheetProps, pr), pr), pr), pr)
             ELSE DefaultSheetProps
    IN  getSheetFormatPrProps(o, ws)

(***************************************************************************)
(* The four exported functions: the workbook after the call and the values *)
(* returned.                                                               *)
(***************************************************************************)
SetPageMargins(sh, sheet, opts) ==
    LET r == workSheetReader(sh, sheet)
    IN  IF r.err # NoErr THEN [sheets |-> sh, err |-> r.err, opts |-> Nil]
        ELSE IF opts = Nil THEN [sheets |-> sh, err |-> r.err, opts |-> Nil]
        ELSE [sheets |-> [sh EXCEPT ![sheet] = setPageMargins(Deref(r.ws), Deref(opts))],
              err |-> r.err, opts |-> Nil]

GetPageMargins(sh, sheet) ==
    LET r == workSheetReader(sh, sheet)
    IN  IF r.err # NoErr
        THEN [sheets |-> sh, err |-> r.err, opts |-> Ptr(DefaultPageMargins)]
        ELSE [sheets |-> sh, err |-> r.err, opts |-> Ptr(getPageMargins(Deref(r.ws)))]

\* SetSheetProps with the nil check ahead of the sheet lookup.
SetSheetProps_nilFirst(sh, sheet, opts) ==
    LET r == workSheetReader(sh, sheet)
    IN  IF opts = Nil THEN [sheets |-> sh, err |-> NoErr, opts |-> Nil]
        ELSE IF r.err # NoErr THEN [sheets |-> sh, err |-> r.err, opts |-> Nil]
        ELSE [sheets |-> [sh EXCEPT ![sheet] =
                             setSheetPropsAndFormat(Deref(r.ws), Deref(opts))],
              err |-> r.err, opts |-> Nil]

SetSheetProps(sh, sheet, opts) ==
    LET r == workSheetReader(sh, sheet)
    IN  IF r.err # NoErr THEN [sheets |-> sh, err |-> r.err, opts |-> Nil]
        ELSE IF opts = Nil THEN [sheets |-> sh, err |-> r.err, opts |-> Nil]
        ELSE [sheets |-> [sh EXCEPT ![sheet] =
                             setSheetPropsAndFormat(Deref(r.ws), Deref(opts))],
              err |-> r.err, opts |-> Nil]

GetSheetProps(sh, sheet) ==
    LET r == workSheetReader(sh, sheet)
    IN  IF r.err # NoErr
        THEN [sheets |-> sh, err |-> r.err, opts |-> Ptr(DefaultSheetProps)]
        ELSE [sheets |-> sh, err |-> r.err, opts |-> Ptr(getSheetProps(Deref(r.ws)))]

(***************************************************************************)
(* The patches a caller passes: nil, or a patch with no field, one field,  *)
(* the fields of one feature group or every field present.  A single field *)
(* carries its zero value or a non-zero one, several fields non-zero ones. *)
(* The caller passes all of these for the worksheet DetailedSheet; with    *)
(* any other name, resolving or not, it passes nil, the empty patch or the *)
(* full one (the functions treat all worksheets alike).                    *)
(***************************************************************************)
ZeroValue(name) ==
    CASE name \in {"CodeName", "TabColorRGB"} -> ""
      [] name \in {"Bottom", "Footer", "Header", "Left", "Right", "Top",
                   "TabColorIndexed", "TabColorTheme", "TabColorTint",
                   "BaseColWidth", "DefaultColWidth", "DefaultRowHeight"} -> 0
      [] OTHER -> FALSE

OtherValue(name) ==
    CASE name = "CodeName" -> "Data"
      [] name = "TabColorRGB" -> "FF0000"
      [] name \in {"Bottom", "Footer", "Header", "Left", "Right", "Top",
                   "TabColorTint", "DefaultColWidth", "DefaultRowHeight"} -> 100
      [] name \in {"TabColorIndexed", "TabColorTheme"} -> 1
      [] name = "BaseColWidth" -> 10
      [] OTHER -> TRUE

Patch(fields, present, zero) ==
    [n \in Range(fields) |->
        IF n \in present THEN Ptr(IF zero THEN ZeroValue(n) ELSE OtherValue(n))
        ELSE Nil]

DistanceFields == {"Bottom", "Footer", "Header", "Left", "Right", "Top"}

CenteringFields == {"Horizontally", "Vertically"}

SheetPrFields == {"CodeName", "EnableFormatConditionsCalculation", "Published"}

PageSetUpPrFields == {"AutoPageBreaks", "FitToPage"}

OutlinePrFields == {"OutlineSummaryBelow", "OutlineSummaryRight"}

TabColorFields == {"TabColorIndexed", "TabColorRGB", "TabColorTheme", "TabColorTint"}

SheetFormatPrFields ==
    {"BaseColWidth", "DefaultColWidth", "DefaultRowHeight", "CustomHeight",
     "ZeroHeight", "ThickTop", "ThickBottom"}

MarginFields == Range(PageLayoutMarginsOptionsFields)

SheetPropsFields == Range(SheetPropsOptionsFields)

PatchesOf(fields, groups) ==
    {Ptr(Patch(fields, {n}, z)) : n \in Range(fields), z \in BOOLEAN}
        \cup {Ptr(Patch(fields, g, FALSE)) : g \in groups \cup {{}, Range(fields)}}

EdgePatchesOf(fields) ==
    {Nil, Ptr(Patch(fields, {}, FALSE)), Ptr(Patch(fields, Range(fields), FALSE))}

AllMarginPatches ==
    {Nil} \cup PatchesOf(PageLayoutMarginsOptionsFields, {DistanceFields, CenteringFields})

EdgeMarginPatches == EdgePatchesOf(PageLayoutMarginsOptionsFields)

AllSheetPropsPatches ==
    {Nil} \cup PatchesOf(SheetPropsOptionsFields,
                         {SheetPrFields, PageSetUpPrFields, OutlinePrFields,
                          TabColorFields, SheetFormatPrFields})

EdgeSheetPropsPatches == EdgePatchesOf(SheetPropsOptionsFields)

DetailedSheet == "Sheet1"

MarginPatches(sheet) ==
    IF sheet = DetailedSheet THEN AllMarginPatches ELSE EdgeMarginPatches

SheetPropsPatches(sheet) ==
    IF sheet = DetailedSheet THEN AllSheetPropsPatches ELSE EdgeSheetPropsPatches

(***************************************************************************)
(* The state machine: a caller makes up to MaxCalls calls; call and ret    *)
(* hold the last call and what it returned.                                *)
(***************************************************************************)
Init ==
    /\ sheets = [s \in Sheets |-> NewWorksheet]
    /\ call = [op |-> "none", sheet |-> "", opts |-> Nil]
    /\ ret = [err |-> NoErr, opts |-> Nil]
    /\ ncalls = 0

CallSetPageMargins ==
    \E sheet \in SheetNames : \E opts \in MarginPatches(sheet) :
        LET r == SetPageMargins(sheets, sheet, opts)
        IN  /\ ncalls < MaxCalls
            /\ ncalls' = ncalls + 1
            /\ call' = [op |-> "SetPageMargins", sheet |-> sheet, opts |-> opts]
            /\ sheets' = r.sheets
            /\ ret' = [err |-> r.err, opts |-> r.opts]

CallGetPageMargins ==
    \E sheet \in SheetNames :
        LET r == GetPageMargins(sheets, sheet)
        IN  /\ ncalls < MaxCalls
            /\ ncalls' = ncalls + 1
            /\ call' = [op |-> "GetPageMargins", sheet |-> sheet, opts |-> Nil]
            /\ sheets' = r.sheets
            /\ ret' = [err |-> r.err, opts |-> r.opts]

CallSetSheetProps ==
    \E sheet \in SheetNames : \E opts \in SheetPropsPatches(sheet) :
        LET r == SetSheetProps(sheets, sheet, opts)
        IN  /\ ncalls < MaxCalls
            /\ ncalls' = ncalls + 1
            /\ call' = [op |-> "SetSheetProps", sheet |-> sheet, opts |-> opts]
            /\ sheets' = r.sheets
            /\ ret' = [err |-> r.err, opts |-> r.opts]

CallGetSheetProps ==
    \E sheet \in SheetNames :
        LET r == GetSheetProps(sheets, sheet)
        IN  /\ ncalls < MaxCalls
            /\ ncalls' = ncalls + 1
            /\ call' = [op |-> "GetSheetProps", sheet |-> sheet, opts |-> Nil]
            /\ sheets' = r.sheets
            /\ ret' = [err |-> r.err, opts |-> r.opts]

Next ==
    \/ CallSetPageMargins
    \/ CallGetPageMargins
    \/ CallSetSheetProps
    \/ CallGetSheetProps

Spec == Init /\ [][Next]_vars

(***************************************************************************)
(* Vocabulary of the properties.                                           *)
(***************************************************************************)
\* The last step was op(sheet, opts) on a worksheet that exists, opts not nil.
Applied(c, op) == c.op = op /\ c.sheet \in Sheets /\ c.opts # Nil

\* The fields present in a patch.
Present(patch) == {n \in DOMAIN patch : patch[n] # Nil}

\* The model nodes, and whether a worksheet has them.
Nodes ==
    {"PageMargins", "PrintOptions", "SheetPr", "PageSetUpPr", "OutlinePr",
     "TabColor", "SheetFormatPr"}

NodeOf(ws, node) ==
    IF node \in {"PageSetUpPr", "OutlinePr", "TabColor"}
    THEN IF ws.SheetPr = Nil THEN Nil ELSE Deref(ws.SheetPr)[node]
    ELSE ws[node]

\* The descriptor fields whose presence in a patch lets a set call allocate a node.
Targeting(node) ==
    CASE node = "PageMargins" -> DistanceFields
      [] node = "PrintOptions" -> CenteringFields
      [] node = "SheetPr" ->
            SheetPrFields \cup PageSetUpPrFields \cup OutlinePrFields \cup TabColorFields
      [] node = "PageSetUpPr" -> PageSetUpPrFields
      [] node = "OutlinePr" -> OutlinePrFields
      [] node = "TabColor" -> TabColorFields
      [] node = "SheetFormatPr" -> SheetFormatPrFields

\* The node and the field of the node that a descriptor field is stored in.
HomeNode(n) ==
    CASE n \in DistanceFields -> "PageMargins"
      [] n \in CenteringFields -> "PrintOptions"
      [] n \in SheetPrFields -> "SheetPr"
      [] n \in PageSetUpPrFields -> "PageSetUpPr"
      [] n \in OutlinePrFields -> "OutlinePr"
      [] n \in TabColorFields -> "TabColor"
      [] n \in SheetFormatPrFields -> "SheetFormatPr"

HomeField(n) ==
    CASE n = "Horizontally" -> "HorizontalCentered"
      [] n = "Vertically" -> "VerticalCentered"
      [] n = "OutlineSummaryBelow" -> "SummaryBelow"
      [] n = "OutlineSummaryRight" -> "SummaryRight"
      [] n = "TabColorIndexed" -> "Indexed"
      [] n = "TabColorRGB" -> "RGB"
      [] n = "TabColorTheme" -> "Theme"
      [] n = "TabColorTint" -> "Tint"
      [] OTHER -> n

\* What the model stores for a descriptor field: Nil when its node is absent.
Stored(ws, n) ==
    IF NodeOf(ws, HomeNode(n)) = Nil THEN Nil
    ELSE Ptr(Deref(NodeOf(ws, HomeNode(n)))[HomeField(n)])

AllFields == MarginFields \cup SheetPropsFields

\* The fields a patch of the call leaves absent (every field of the other group too).
AbsentFields(c) == AllFields \ Present(Deref(c.opts))

\* The step just taken is a set call on an existing worksheet with a non-nil patch.
SetStep(c) == Applied(c, "SetPageMargins") \/ Applied(c, "SetSheetProps")

IsEmptyPatch(c) == Present(Deref(c.opts)) = {}

\* The model fields that are pointers: the descriptor takes the pointer itself.
PointerFields ==
    {"EnableFormatConditionsCalculation", "Published", "OutlineSummaryBelow",
     "OutlineSummaryRight", "TabColorTheme"}

(***************************************************************************)
(* Properties                                                              *)
(***************************************************************************)

\* C1 (round trip): after SetPageMargins or SetSheetProps has applied a patch p to
\* an existing worksheet, in any reachable state, the matching Get succeeds and
\* returns every field present in p as present and equal to p's value.
C1_RoundTrip ==
    /\ Applied(call, "SetPageMargins") =>
          LET r == GetPageMargins(sheets, call.sheet)
          IN  /\ ret.err = NoErr /\ r.err = NoErr
              /\ \A n \in Present(Deref(call.opts)) :
                    Deref(r.opts)[n] # Nil /\ Deref(r.opts)[n] = Deref(call.opts)[n]
    /\ Applied(call, "SetSheetProps") =>
          LET r == GetSheetProps(sheets, call.sheet)
          IN  /\ ret.err = NoErr /\ r.err = NoErr
              /\ \A n \in Present(Deref(call.opts)) :
                    Deref(r.opts)[n] # Nil /\ Deref(r.opts)[n] = Deref(call.opts)[n]

\* A second call wrote every sheet property over a worksheet already written to,
\* and the base column width reads back.
C1_Witness ==
    /\ ncalls = 2
    /\ Applied(call, "SetSheetProps")
    /\ Present(Deref(call.opts)) = SheetPropsFields
    /\ sheets[call.sheet].PageMargins # Nil
    /\ getSheetProps(sheets[call.sheet]).BaseColWidth = Ptr(10)
    /\ getSheetProps(sheets[call.sheet]).TabColorTheme = Ptr(1)

\* C2 (as claimed): SetPageMargins on a worksheet with no node, with a patch of some
\* of the six distances only, makes GetPageMargins return the patched value for each
\* present distance and the default (0.7, 0.7, 0.75, 0.75, 0.3, 0.3) for each absent one.
C2_PartialMarginsKeepDefaults ==
    [][(/\ Applied(call', "SetPageMargins")
        /\ sheets[call'.sheet] = NewWorksheet
        /\ Present(Deref(call'.opts)) # {}
        /\ Present(Deref(call'.opts)) \subseteq DistanceFields)
       => LET p == Deref(call'.opts)
              d == getPageMargins(sheets'[call'.sheet])
              documented == [Left |-> 70, Right |-> 70, Top |-> 75, Bottom |-> 75,
                             Header |-> 30, Footer |-> 30]
          IN  \A n \in DistanceFields :
                 d[n] = IF p[n] # Nil THEN p[n] ELSE Ptr(documented[n])]_vars

\* C3 (as claimed): SetSheetProps with only TabColorRGB = "FF0000" on a worksheet with
\* no node makes GetSheetProps return TabColorRGB "FF0000", TabColorIndexed absent and
\* CodeName absent.
C3_TabColorRGBOnly ==
    [][(/\ Applied(call', "SetSheetProps")
        /\ sheets[call'.sheet] = NewWorksheet
        /\ Deref(call'.opts) = Patch(SheetPropsOptionsFields, {"TabColorRGB"}, FALSE))
       => LET d == getSheetProps(sheets'[call'.sheet])
          IN  /\ d.TabColorRGB = Ptr("FF0000")
              /\ d.TabColorIndexed = Nil
              /\ d.CodeName = Nil]_vars

\* C4 (as claimed): a set call with a non-nil patch whose fields are all absent leaves
\* the result of the matching Get unchanged.
C4_EmptyPatchNoOp ==
    [][/\ (Applied(call', "SetPageMargins") /\ IsEmptyPatch(call'))
          => getPageMargins(sheets'[call'.sheet]) = getPageMargins(sheets[call'.sheet])
       /\ (Applied(call', "SetSheetProps") /\ IsEmptyPatch(call'))
          => getSheetProps(sheets'[call'.sheet]) = getSheetProps(sheets[call'.sheet])]_vars

\* C4 (amended): an empty patch leaves GetPageMargins unchanged; it leaves every
\* field of GetSheetProps other than the seven format fields unchanged, and the format
\* fields too when the worksheet already has its SheetFormatPr node; when it has not,
\* the call creates the node and the format fields read BaseColWidth 0,
\* DefaultColWidth 0, DefaultRowHeight defaultRowHeight and the four flags false.
C4_EmptyPatchNoOpButFormat ==
    [][/\ (Applied(call', "SetPageMargins") /\ IsEmptyPatch(call'))
          => getPageMargins(sheets'[call'.sheet]) = getPageMargins(sheets[call'.sheet])
       /\ (Applied(call', "SetSheetProps") /\ IsEmptyPatch(call'))
          => LET before == getSheetProps(sheets[call'.sheet])
                 after  == getSheetProps(sheets'[call'.sheet])
             IN  /\ \A n \in SheetPropsFields \ SheetFormatPrFields : after[n] = before[n]
                 /\ sheets[call'.sheet].SheetFormatPr # Nil => after = before
                 /\ sheets[call'.sheet].SheetFormatPr = Nil =>
                       /\ after.BaseColWidth = Ptr(0)
                       /\ after.DefaultColWidth = Ptr(0)
                       /\ after.DefaultRowHeight = Ptr(defaultRowHeight)
                       /\ \A n \in {"CustomHeight", "ZeroHeight", "ThickTop",
                                    "ThickBottom"} : after[n] = Ptr(FALSE)]_vars

\* An empty sheet-properties patch was applied, as the second call, to a worksheet
\* whose SheetPr was written by the first call and is still as written.
C4_Witness ==
    /\ ncalls = 2
    /\ Applied(call, "SetSheetProps")
    /\ IsEmptyPatch(call)
    /\ Stored(sheets[call.sheet], "CodeName") = Ptr("Data")
    /\ sheets[call.sheet].SheetFormatPr # Nil

\* C5: a call with a sheet name that does not resolve fails with SheetNotFound,
\* whatever the patch (nil included), and changes no worksheet.
C5_SheetNotFound ==
    [][call'.sheet \notin Sheets => (ret'.err = ErrSheetNotExist /\ sheets' = sheets)]_vars

\* SetSheetProps("NoSuchSheet", nil) failed after an earlier call had written a node.
C5_Witness ==
    /\ ncalls = 2
    /\ call.op = "SetSheetProps"
    /\ call.sheet = "NoSuchSheet"
    /\ call.opts = Nil
    /\ ret.err = ErrSheetNotExist
    /\ \E t \in Sheets : sheets[t] # NewWorksheet

\* C6: a set call changes no other worksheet, and in its own worksheet every stored
\* field of a node that existed before the call, whose patch field is absent, keeps
\* its value (so a tab-color patch leaves OutlinePr, PageSetUpPr and CodeName alone).
C6_AbsentFieldsUntouched ==
    [][/\ call'.op \in {"SetPageMargins", "SetSheetProps"}
          => \A t \in Sheets \ {call'.sheet} : sheets'[t] = sheets[t]
       /\ SetStep(call')
          => \A n \in AbsentFields(call') :
                Stored(sheets[call'.sheet], n) # Nil
                   => Stored(sheets'[call'.sheet], n) = Stored(sheets[call'.sheet], n)]_vars

\* A tab-color patch was applied to a worksheet whose code name had been set, and the
\* code name is still stored.
C6_Witness ==
    /\ ncalls = 2
    /\ Applied(call, "SetSheetProps")
    /\ Present(Deref(call.opts)) # {}
    /\ Present(Deref(call.opts)) \subseteq TabColorFields
    /\ Stored(sheets[call.sheet], "CodeName") = Ptr("Data")

\* C7: on a worksheet with no node GetPageMargins returns 0.7, 0.7, 0.75, 0.75, 0.3,
\* 0.3 with both centering fields absent and GetSheetProps returns the five defaults
\* with every other field absent; no Get on an existing worksheet fails.
C7_Defaults ==
    /\ (call.op \in {"GetPageMargins", "GetSheetProps"} /\ call.sheet \in Sheets)
          => ret.err = NoErr
    /\ (call.op = "GetPageMargins" /\ call.sheet \in Sheets
            /\ sheets[call.sheet] = NewWorksheet)
          => ret.opts = Ptr([Left |-> Ptr(70), Right |-> Ptr(70), Top |-> Ptr(75),
                             Bottom |-> Ptr(75), Header |-> Ptr(30), Footer |-> Ptr(30),
                             Horizontally |-> Nil, Vertically |-> Nil])
    /\ (call.op = "GetSheetProps" /\ call.sheet \in Sheets
            /\ sheets[call.sheet] = NewWorksheet)
          => ret.opts = Ptr([CodeName |-> Nil,
                             EnableFormatConditionsCalculation |-> Ptr(TRUE),
                             Published |-> Ptr(TRUE), AutoPageBreaks |-> Ptr(TRUE),
                             FitToPage |-> Nil, TabColorIndexed |-> Nil,
                             TabColorRGB |-> Nil, TabColorTheme |-> Nil,
                             TabColorTint |-> Nil, OutlineSummaryBelow |-> Ptr(TRUE),
                             OutlineSummaryRight |-> Nil, BaseColWidth |-> Ptr(8),
                             DefaultColWidth |-> Nil, DefaultRowHeight |-> Nil,
                             CustomHeight |-> Nil, ZeroHeight |-> Nil, ThickTop |-> Nil,
                             ThickBottom |-> Nil])

\* GetSheetProps returned its defaults for a worksheet with no node while the other
\* worksheet had been written to.
C7_Witness ==
    /\ ncalls = 2
    /\ call.op = "GetSheetProps"
    /\ call.sheet \in Sheets
    /\ sheets[call.sheet] = NewWorksheet
    /\ \E t \in Sheets : sheets[t] # NewWorksheet
    /\ Deref(ret.opts).BaseColWidth = Ptr(8)

\* C8: a SetSheetProps that applies a non-nil patch leaves the worksheet with a
\* SheetFormatPr node, whose DefaultRowHeight reads defaultRowHeight when the call
\* created the node and its patch has no DefaultRowHeight; no later step makes
\* GetSheetProps report DefaultRowHeight absent again; a nil patch creates no node.
C8_FormatNodeMonotonic ==
    [][/\ Applied(call', "SetSheetProps")
          => /\ getSheetProps(sheets'[call'.sheet]).DefaultRowHeight # Nil
             /\ (sheets[call'.sheet].SheetFormatPr = Nil
                    /\ Deref(call'.opts).DefaultRowHeight = Nil)
                => getSheetProps(sheets'[call'.sheet]).DefaultRowHeight
                      = Ptr(defaultRowHeight)
       /\ \A t \in Sheets :
             getSheetProps(sheets[t]).DefaultRowHeight # Nil
                => getSheetProps(sheets'[t]).DefaultRowHeight # Nil
       /\ (call'.op = "SetSheetProps" /\ call'.opts = Nil) => sheets' = sheets]_vars

\* GetSheetProps reported the default row height after an empty patch had been
\* applied to the worksheet.
C8_Witness ==
    /\ ncalls = 2
    /\ call.op = "GetSheetProps"
    /\ call.sheet \in Sheets
    /\ sheets[call.sheet] = [NewWorksheet EXCEPT !.SheetFormatPr = Ptr(NewSheetFormatPr)]
    /\ Deref(ret.opts).DefaultRowHeight = Ptr(defaultRowHeight)

\* C9: a step creates a node of a worksheet only if it is a set call on that
\* worksheet whose patch has a field targeting the node, or, for SheetFormatPr, a
\* SetSheetProps with any non-nil patch (which always leaves the node present); a
\* node that exists stays, with every field the patch does not name as it was.
C9_LazyAllocation ==
    [][/\ \A t \in Sheets, node \in Nodes :
             (NodeOf(sheets[t], node) = Nil /\ NodeOf(sheets'[t], node) # Nil)
                => /\ SetStep(call') /\ call'.sheet = t
                   /\ IF node = "SheetFormatPr"
                      THEN call'.op = "SetSheetProps"
                      ELSE Present(Deref(call'.opts)) \cap Targeting(node) # {}
       /\ Applied(call', "SetSheetProps")
             => NodeOf(sheets'[call'.sheet], "SheetFormatPr") # Nil
       /\ \A t \in Sheets, node \in Nodes :
             NodeOf(sheets[t], node) # Nil
                => /\ NodeOf(sheets'[t], node) # Nil
                   /\ (SetStep(call') /\ call'.sheet = t
                          /\ Present(Deref(call'.opts)) \cap Targeting(node) = {})
                      => NodeOf(sheets'[t], node) = NodeOf(sheets[t], node)]_vars

\* An empty sheet-properties patch on a worksheet with no node created SheetFormatPr
\* and nothing else.
C9_Witness ==
    /\ Applied(call, "SetSheetProps")
    /\ IsEmptyPatch(call)
    /\ \E t \in Sheets : sheets[t].PrintOptions # Nil /\ sheets[t].PageMargins = Nil
    /\ sheets[call.sheet] = [NewWorksheet EXCEPT !.SheetFormatPr = Ptr(NewSheetFormatPr)]

\* C10 (as claimed): GetSheetProps takes every descriptor field of a node that exists
\* from the node's stored state, none keeping its default.
C10_PresentNodeOverwritesAll ==
    (call.op = "GetSheetProps" /\ call.sheet \in Sheets)
       => \A n \in SheetPropsFields :
             Stored(sheets[call.sheet], n) # Nil
                => Deref(ret.opts)[n] =
                      IF n \in PointerFields THEN Deref(Stored(sheets[call.sheet], n))
                                             ELSE Stored(sheets[call.sheet], n)

\* C10 (amended): as claimed, except that EnableFormatConditionsCalculation and
\* Published are taken from an existing SheetPr only when the stored flag is not nil
\* and keep the default true otherwise.
C10_PresentNodeOverwritesButNilFlags ==
    (call.op = "GetSheetProps" /\ call.sheet \in Sheets)
       => \A n \in SheetPropsFields :
             Stored(sheets[call.sheet], n) # Nil
                => Deref(ret.opts)[n] =
                      IF n \in {"EnableFormatConditionsCalculation", "Published"}
                      THEN IF Deref(Stored(sheets[call.sheet], n)) # Nil
                           THEN Deref(Stored(sheets[call.sheet], n))
                           ELSE Ptr(TRUE)
                      ELSE IF n \in PointerFields
                           THEN Deref(Stored(sheets[call.sheet], n))
                           ELSE Stored(sheets[call.sheet], n)

\* GetSheetProps read a worksheet whose OutlinePr has no SummaryBelow and whose
\* SheetPr has no Published: the first reads absent, the second true.
C10_Witness ==
    /\ call.op = "GetSheetProps"
    /\ call.sheet \in Sheets
    /\ Stored(sheets[call.sheet], "OutlineSummaryBelow") = Ptr(Nil)
    /\ Stored(sheets[call.sheet], "Published") = Ptr(Nil)
    /\ Deref(ret.opts).OutlineSummaryBelow = Nil
    /\ Deref(ret.opts).Published = Ptr(TRUE)

====
